---- MODULE Spec2Model ----
(***************************************************************************)
(* Model of the AscendAI lead assessment pipeline                          *)
(* (src/src/ascendai/lead_assessor.py, src/src/models/lead.py,             *)
(* src/src/ascendai/lead_generation.py).                                   *)
(*                                                                         *)
(* Numbers are carried in quarters: the model integer n stands for the     *)
(* Python number n/4.  All inputs are therefore dyadic rationals, for      *)
(* which the float arithmetic of assess_lead (sum, division by 1..7,       *)
(* times 100, round) is exact up to an error far below the distance to a   *)
(* rounding tie, so the integer arithmetic below is the code's result.     *)
(***************************************************************************)
EXTENDS Integers, Sequences, FiniteSets, TLC

VARIABLES
    script,          \* assess_lead: what the two providers answer, per factor
    apc,             \* assess_lead: "ready" before the call, "returned" after
    result,          \* assess_lead: the returned mapping
    numeric_scores,  \* assess_lead: the local list numeric_scores at return
    calls,           \* assess_lead: the provider calls it made, in order
    pf,              \* value extraction: the parsed completion object
    xpc,             \* value extraction: "ready" / "done"
    extracted,       \* value extraction: the local `value` after line 234
    sresp,           \* SerperClient.search: what the HTTP request does
    snum,            \* SerperClient.search: the argument num_results
    spc,             \* SerperClient.search: "ready" / "done"
    sout,            \* SerperClient.search: how the call ended
    jT,              \* generate_json: the text the first completion carries
    jwrap,           \* generate_json: how the completion wraps that text
    jraise1,         \* generate_json: the first completion call raises
    jfix,            \* generate_json: what the fixer completion call does
    jpc,             \* generate_json: "ready" / "done"
    jout,            \* generate_json: how the call ended
    db,              \* the leads table: id -> row
    clock,           \* source of created_at
    pc,              \* assess_all_leads: position of the batch
    pending,         \* assess_all_leads: leads of q.all() not yet processed
    cur,             \* assess_all_leads: assessment of the lead being processed
    results,         \* assess_all_leads: the list it returns
    last,            \* the request's last persist_assessment call and outcome
    req,             \* the running request: its limit and what its query saw
    events,          \* the assess and persist calls of the request, in order
    qin,             \* query builder: its arguments
    qpc,             \* query builder: "ready" / "done"
    qout,            \* query builder: the string it returned, in pieces
    lin,             \* extract_companies_from_url: what generate_json does
    lpc,             \* extract_companies_from_url: "ready" / "done"
    lout,            \* extract_companies_from_url: how the call ended
    runs,            \* racing runs: position, loaded lead and assessment
    commits          \* racing runs: the runs whose commit succeeded, in order

vars == <<script, apc, result, numeric_scores, calls, pf, xpc, extracted,
          sresp, snum, spc, sout, jT, jwrap, jraise1, jfix, jpc, jout,
          db, clock, pc, pending, cur, results, last, req, events,
          qin, qpc, qout, lin, lpc, lout, runs, commits>>

assessVars  == <<script, apc, result, numeric_scores, calls>>
extractVars == <<pf, xpc, extracted>>
searchVars  == <<sresp, snum, spc, sout>>
jsonVars    == <<jT, jwrap, jraise1, jfix, jpc, jout>>
storeVars   == <<db, clock, pc, pending, cur, results, last, req, events>>
queryVars   == <<qin, qpc, qout>>
leadsVars   == <<lin, lpc, lout>>
raceVars    == <<runs, commits>>
otherVars   == <<queryVars, leadsVars, raceVars>>

-----------------------------------------------------------------------------
(* Bounds *)

MaxVaried == 2     \* factors of one call whose provider answers are varied
MaxQ      == 5     \* largest number a completion carries, in quarters (5/4)
NumLeads  == 2     \* rows the leads table can hold

-----------------------------------------------------------------------------
(* JSON values as Python sees them.  t is the type, n the payload:          *)
(*   null            None, also what dict.get returns for a missing key     *)
(*   num    n        the number n/4 (int or float)                          *)
(*   numstr n        a string that float() parses to n/4, e.g. "0.75"       *)
(*   str    n        a string float() rejects; n = 0 is the empty string    *)
(*   bool   n        false (0) or true (1)                                  *)
(*   obj    n        a dict or list; n = 0 is the empty one                 *)

Null      == [t |-> "null", n |-> 0]
Num(q)    == [t |-> "num", n |-> q]
NumStr(q) == [t |-> "numstr", n |-> q]
Str(i)    == [t |-> "str", n |-> i]
Bool(b)   == [t |-> "bool", n |-> b]
Obj(k)    == [t |-> "obj", n |-> k]

\* Python truthiness, as used by `or` and `if x:`
Truthy(v) ==
    CASE v.t = "null"   -> FALSE
      [] v.t = "num"    -> v.n # 0
      [] v.t = "numstr" -> TRUE
      [] v.t = "str"    -> v.n # 0
      [] v.t = "bool"   -> v.n = 1
      [] v.t = "obj"    -> v.n # 0

\* a or b
PyOr(a, b) == IF Truthy(a) THEN a ELSE b

\* float(v) succeeds
FloatOk(v) == v.t \in {"num", "numstr", "bool"}

\* float(v), in quarters (float(True) is 1.0)
FloatOf(v) == IF v.t = "bool" THEN 4 * v.n ELSE v.n

-----------------------------------------------------------------------------
(* LeadAssessor.FACTOR_KEYS and the score-type factors of assess_lead *)

FACTOR_KEYS ==
    << "tech_stack", "business_age_months", "merchant_category",
       "company_scale", "integration_readiness_score",
       "transaction_intent_score", "digital_maturity_score",
       "web_presence_quality", "fraud_risk_pattern_score",
       "traffic_check", "brand_search_volume" >>

SCORE_KEYS ==
    << "integration_readiness_score", "transaction_intent_score",
       "digital_maturity_score", "web_presence_quality",
       "fraud_risk_pattern_score", "traffic_check", "brand_search_volume" >>

Factors      == {FACTOR_KEYS[i] : i \in 1..Len(FACTOR_KEYS)}
ScoreFactors == {SCORE_KEYS[i] : i \in 1..Len(SCORE_KEYS)}

-----------------------------------------------------------------------------
(* Provider answers *)

\* One item of the list SerperClient.search returned: a dict, or anything else
Hit(i) == [isdict |-> TRUE, id |-> i]
Junk   == [isdict |-> FALSE, id |-> 0]

\* What llm.generate_json did: raised ("exc"), or returned a dict, a
\* non-empty list whose first item is a dict ("list") or is not ("listbad"),
\* an empty list ("empty"), or a scalar.  The six fields are the keys of the
\* dict that assess_lead reads (Null when the key is missing).
Completion(kind, fk, va, sc, re, ra, ls) ==
    [kind |-> kind, fkey |-> fk, value |-> va, score |-> sc, result |-> re,
     rationale |-> ra, lead_score |-> ls]

RaisedCompletion == Completion("exc", Null, Null, Null, Null, Null, Null)
FactorOnly(v)    == Completion("dict", v, Null, Null, Null, Null, Null)

EmptyDict == [fkey |-> Null, value |-> Null, score |-> Null, result |-> Null,
              rationale |-> Null, lead_score |-> Null]

\* lines 225-229: parsed_factor
ParsedFactor(res) ==
    IF res.kind \in {"dict", "list"}
    THEN [fkey |-> res.fkey, value |-> res.value, score |-> res.score,
          result |-> res.result, rationale |-> res.rationale,
          lead_score |-> res.lead_score]
    ELSE EmptyDict

\* lines 232-234: value
ExtractValue(p) ==
    IF p.fkey # Null THEN p.fkey
    ELSE PyOr(PyOr(p.value, p.score), p.result)

-----------------------------------------------------------------------------
(* LeadAssessor._search_for_factor, lines 125-132 *)

\* the dict appended for one search result
SnippetOf(factor, item) == [query |-> factor, src |-> item.id]

\* r.get(...) raises AttributeError when a result is not a dict; nothing
\* catches it inside _search_for_factor
SearchRaises(items) == \E i \in 1..Len(items) : ~items[i].isdict

SearchForFactor(factor, items) ==
    [i \in 1..Len(items) |-> SnippetOf(factor, items[i])]

-----------------------------------------------------------------------------
(* LeadAssessor.assess_lead, lines 207-272 *)

NoValues   == [f \in Factors |-> Null]
NoSnippets == [f \in Factors |-> << >>]

\* a provider call: serp.search (line 125) for a factor, or
\* llm.generate_json (line 220) for a factor with n snippets in its prompt
SearchCall(factor)      == [op |-> "search", factor |-> factor, n |-> 0]
CompleteCall(factor, n) == [op |-> "complete", factor |-> factor, n |-> n]

\* lines 211-213; calls is the record of the provider calls made so far
EmptyAcc == [vals |-> NoValues, rationales |-> NoValues,
             raw_search_snippets |-> NoSnippets, calls |-> << >>]

\* the call _estimate_factor_with_llm would make (line 166); no line of
\* assess_lead makes it
EstimateCall(factor, n) == [op |-> "estimate", factor |-> factor, n |-> n]

\* one iteration of the factor loop, lines 216-240, the search having returned
FactorStep_EstimateWithoutEvidence(acc, factor, resp) ==
    LET snips == SearchForFactor(factor, resp.search)
        acc1  == [acc EXCEPT !.raw_search_snippets[factor] = snips,
                             !.calls = Append(Append(@, SearchCall(factor)),
                                          CompleteCall(factor, Len(snips)))]
        acc1e == IF snips = << >> \/ resp.gen.kind = "exc"
                 THEN [acc1 EXCEPT
                          !.calls = Append(@, EstimateCall(factor, Len(snips)))]
                 ELSE acc1
        p     == ParsedFactor(resp.gen)
        value == ExtractValue(p)
        acc2  == IF value # Null
                 THEN [acc1e EXCEPT !.vals[factor] = value]
                 ELSE acc1e
    IN  IF resp.gen.kind = "exc"
        THEN acc1e
        ELSE IF Truthy(p.rationale)
             THEN [acc2 EXCEPT !.rationales[factor] = p.rationale]
             ELSE acc2

FactorStep(acc, factor, resp) ==
    LET snips == SearchForFactor(factor, resp.search)
        acc1  == [acc EXCEPT !.raw_search_snippets[factor] = snips,
                             !.calls = Append(Append(@, SearchCall(factor)),
                                          CompleteCall(factor, Len(snips)))]
        p     == ParsedFactor(resp.gen)
        value == ExtractValue(p)
        acc2  == IF value # Null
                 THEN [acc1 EXCEPT !.vals[factor] = value]
                 ELSE acc1
    IN  IF resp.gen.kind = "exc"
        THEN acc1
        ELSE IF Truthy(p.rationale)
             THEN [acc2 EXCEPT !.rationales[factor] = p.rationale]
             ELSE acc2

\* the factor loop from FACTOR_KEYS[i] on; raised is the AttributeError of
\* _search_for_factor leaving the loop for the outer handler
RECURSIVE FactorLoop_AbortOnFailure(_, _, _)
FactorLoop_AbortOnFailure(i, acc, sc) ==
    IF i > Len(FACTOR_KEYS) THEN [raised |-> FALSE, acc |-> acc]
    ELSE IF SearchRaises(sc[FACTOR_KEYS[i]].search)
         THEN [raised |-> TRUE,
               acc |-> [acc EXCEPT
                          !.calls = Append(@, SearchCall(FACTOR_KEYS[i]))]]
         ELSE IF sc[FACTOR_KEYS[i]].gen.kind = "exc"
         THEN [raised |-> FALSE,
               acc |-> FactorStep(acc, FACTOR_KEYS[i], sc[FACTOR_KEYS[i]])]
         ELSE FactorLoop_AbortOnFailure(i + 1,
                         FactorStep(acc, FACTOR_KEYS[i], sc[FACTOR_KEYS[i]]),
                         sc)

RECURSIVE FactorLoop(_, _, _)
FactorLoop(i, acc, sc) ==
    IF i > Len(FACTOR_KEYS) THEN [raised |-> FALSE, acc |-> acc]
    ELSE IF SearchRaises(sc[FACTOR_KEYS[i]].search)
         THEN [raised |-> TRUE,
               acc |-> [acc EXCEPT
                          !.calls = Append(@, SearchCall(FACTOR_KEYS[i]))]]
         ELSE FactorLoop(i + 1,
                         FactorStep(acc, FACTOR_KEYS[i], sc[FACTOR_KEYS[i]]),
                         sc)

\* line 258: max(0.0, min(1.0, fv))
Clamp_NoUpperBound(q) == IF q < 0 THEN 0 ELSE q

Clamp_NoLowerBound(q) == IF q > 4 THEN 4 ELSE q

Clamp(q) ==
    LET m == IF q > 4 THEN 4 ELSE q
    IN  IF m < 0 THEN 0 ELSE m

\* lines 253-262, for one key k; st is the assessment's values and the
\* list numeric_scores
NormalizeFactor_CountFailures(st, k) ==
    LET v == st.vals[k]
    IN  IF v = Null THEN st
        ELSE IF FloatOk(v)
             THEN [vals |-> [st.vals EXCEPT ![k] = Num(Clamp(FloatOf(v)))],
                   numeric_scores |->
                       Append(st.numeric_scores, Clamp(FloatOf(v)))]
             ELSE [vals |-> st.vals,
                   numeric_scores |-> Append(st.numeric_scores, 0)]

NormalizeFactor(st, k) ==
    LET v == st.vals[k]
    IN  IF v = Null THEN st
        ELSE IF FloatOk(v)
             THEN [vals |-> [st.vals EXCEPT ![k] = Num(Clamp(FloatOf(v)))],
                   numeric_scores |->
                       Append(st.numeric_scores, Clamp(FloatOf(v)))]
             ELSE st

\* the loop of lines 244-262 from SCORE_KEYS[i] on
RECURSIVE NormalizeLoop(_, _)
NormalizeLoop(i, st) ==
    IF i > Len(SCORE_KEYS) THEN st
    ELSE NormalizeLoop(i + 1, NormalizeFactor(st, SCORE_KEYS[i]))

RECURSIVE SumSeq(_)
SumSeq(s) == IF s = << >> THEN 0 ELSE Head(s) + SumSeq(Tail(s))

\* Python 3 round() of the rational n/d (n >= 0, d > 0): ties go to even
RoundHalfEven(n, d) ==
    LET q == n \div d
        r == n % d
    IN  IF 2 * r < d THEN q
        ELSE IF 2 * r > d THEN q + 1
        ELSE IF q % 2 = 0 THEN q ELSE q + 1

\* line 265: int(round((sum(ns) / len(ns)) * 100)) if ns else 0
ComputeLeadScore_Truncate(ns) ==
    IF ns # << >> THEN (25 * SumSeq(ns)) \div Len(ns) ELSE 0

ComputeLeadScore(ns) ==
    IF ns # << >> THEN RoundHalfEven(25 * SumSeq(ns), Len(ns)) ELSE 0

\* the keys of the dict `assessment` before line 264: only line 237 adds
\* keys, and only factor names
AssessmentKeys(vals) == {f \in Factors : vals[f] # Null}

\* line 272: {"error": str(e)}
ErrorOnly ==
    [error |-> TRUE, vals |-> NoValues,
     has_lead_score |-> FALSE, lead_score |-> 0,
     has_rationales |-> FALSE, rationales |-> NoValues,
     has_raw_search_snippets |-> FALSE, raw_search_snippets |-> NoSnippets]

\* assess_lead for the provider answers sc: the returned mapping, the
\* local numeric_scores and the provider calls made
AssessLead(sc) ==
    LET loop == FactorLoop(1, EmptyAcc, sc)
        st   == NormalizeLoop(1, [vals |-> loop.acc.vals,
                                  numeric_scores |-> << >>])
        ls   == IF "lead_score" \notin AssessmentKeys(st.vals)
                THEN ComputeLeadScore(st.numeric_scores)
                ELSE st.vals["lead_score"].n \div 4
    IN  IF loop.raised
        THEN [assessment |-> ErrorOnly, numeric_scores |-> << >>,
              calls |-> loop.acc.calls]
        ELSE [assessment |->
                [error |-> FALSE, vals |-> st.vals,
                 has_lead_score |-> TRUE, lead_score |-> ls,
                 has_rationales |-> TRUE,
                 rationales |-> loop.acc.rationales,
                 has_raw_search_snippets |-> TRUE,
                 raw_search_snippets |-> loop.acc.raw_search_snippets],
              numeric_scores |-> st.numeric_scores,
              calls |-> loop.acc.calls]

-----------------------------------------------------------------------------
(* The provider answers the assess_lead behaviours are explored with *)

Resp(items, gen) == [search |-> items, gen |-> gen]

\* the answer every factor gets unless varied: no evidence and a failed
\* completion, or one hit and the value 0.25 under the factor's own name
BaseResponses ==
    { Resp(<< >>, RaisedCompletion),
      Resp(<<Hit(1)>>, FactorOnly(Num(1))) }

\* numbers below, inside and above [0, 1]: -0.25, 0, and 0.75 to MaxQ/4
\* (0.25 and 0.5 are answered by BaseResponses and OtherAnswers)
NumberAnswers ==
    {Resp(<<Hit(1)>>, FactorOnly(Num(q))) : q \in {0 - 1, 0} \cup (3..MaxQ)}

OtherAnswers ==
    { Resp(<< >>, RaisedCompletion),
      Resp(<<Junk>>, FactorOnly(Num(2))),
      Resp(<<Hit(1), Hit(2)>>, FactorOnly(NumStr(3))),
      Resp(<< >>, FactorOnly(Str(1))),
      Resp(<<Hit(1)>>, FactorOnly(Bool(1))),
      Resp(<<Hit(1)>>, FactorOnly(Obj(1))),
      Resp(<<Hit(1)>>,
           Completion("dict", Num(2), Null, Null, Null, Str(1), Num(600))),
      Resp(<<Hit(1)>>,
           Completion("list", Null, Num(0), Num(3), Null, Str(0), Null)) }

VariedResponses == NumberAnswers \cup OtherAnswers

\* the factors whose answers are varied: the first factor of the loop (not
\* score-type) and the first five score-type factors; the others give the
\* base answer
VariedFactors == {FACTOR_KEYS[1]} \cup {SCORE_KEYS[i] : i \in 1..5}

\* every factor answers `base`, except those of D, which answer dev
ScriptOf(base, D, dev) ==
    [f \in Factors |-> IF f \in D THEN dev[f] ELSE base]

-----------------------------------------------------------------------------
(* The leads table (models/lead.py) and persist_assessment *)

LeadIds == 1..NumLeads

\* the dict {} standing for "no assessment key"
NoAssessment == [ErrorOnly EXCEPT !.error = FALSE]

\* Lead.raw_data: NULL, or the JSON text of an object; `data` stands for the
\* object's keys other than "assessment"
RawNull == [kind |-> "null", data |-> 0,
            has_assessment |-> FALSE, assessment |-> NoAssessment]
RawObj(d) == [kind |-> "obj", data |-> d,
              has_assessment |-> FALSE, assessment |-> NoAssessment]

\* a row that does not exist
NoRow == [exists |-> FALSE, status |-> "", raw_data |-> RawNull,
          lead_score |-> 0, created_at |-> 0, company_name |-> 0]

\* lines 277-285: json.loads(lead.raw_data) when it is set, the assessment
\* key assigned, json.dumps of the result
AttachAssessment_KeepFirst(raw, a) ==
    IF raw.has_assessment THEN raw
    ELSE [kind |-> "obj",
          data |-> IF raw.kind = "null" THEN 0 ELSE raw.data,
          has_assessment |-> TRUE,
          assessment |-> a]

AttachAssessment(raw, a) ==
    [kind |-> "obj",
     data |-> IF raw.kind = "null" THEN 0 ELSE raw.data,
     has_assessment |-> TRUE,
     assessment |-> a]

\* lines 288-289
UpdateLeadScore_ResetWhenMissing(row, a) ==
    [row EXCEPT !.lead_score = IF a.has_lead_score THEN a.lead_score ELSE 0]

UpdateLeadScore(row, a) ==
    IF a.has_lead_score
    THEN [row EXCEPT !.lead_score = a.lead_score]
    ELSE row

\* line 291: lead.status = "assessed"
MarkAssessed_Toggle(row) ==
    [row EXCEPT !.status = IF @ = "assessed" THEN "new" ELSE "assessed"]

MarkAssessed(row) == [row EXCEPT !.status = "assessed"]

\* lines 284-291: the lead object as modified in the session before commit
ModifiedLead_AccumulateScore(row, a) ==
    LET m1 == [row EXCEPT !.raw_data = AttachAssessment(row.raw_data, a)]
        m2 == IF a.has_lead_score
              THEN [m1 EXCEPT !.lead_score = row.lead_score + a.lead_score]
              ELSE m1
    IN  MarkAssessed(m2)

ModifiedLead(row, a) ==
    LET m1 == [row EXCEPT !.raw_data = AttachAssessment(row.raw_data, a)]
        m2 == UpdateLeadScore(m1, a)
    IN  MarkAssessed(m2)

\* lines 294-295: session.rollback() discards the pending changes
Rollback(before, modified) == before

\* line 293: session.commit() writes the row, or fails and the handler runs
Commit_PartialFlush(before, modified, ok) ==
    IF ok THEN modified
    ELSE Rollback([before EXCEPT !.raw_data = modified.raw_data], modified)

Commit(before, modified, ok) ==
    IF ok THEN modified ELSE Rollback(before, modified)

\* what a persist_assessment call meets:
\*   committed         line 293 returns
\*   rolled_back       line 293 raises an Exception, the handler of lines
\*                     294-296 rolls back and logs
\*   log_raises        the same, but reading lead.company_name for the log
\*                     of line 296, which reloads the lead the rollback
\*                     expired, raises
\*   rollback_raises   line 293 raises an Exception and session.rollback()
\*                     of line 295 raises too
\*   commit_interrupt  line 293 raises a BaseException that is no
\*                     Exception, which the handler does not catch
PersistOutcomes ==
    {"committed", "rolled_back", "log_raises", "rollback_raises",
     "commit_interrupt"}

\* persist_assessment: the stored row after the call, and whether the call
\* raised to its caller.  The handler of line 294 catches every Exception of
\* the try block, but lines 295-296 are themselves unprotected.
PersistAssessment_Deferred(row, a, how) == [row |-> row, raised |-> FALSE]

PersistAssessment(row, a, how) ==
    LET modified == ModifiedLead(row, a)
    IN  CASE how = "committed" ->
                 [row |-> Commit(row, modified, TRUE), raised |-> FALSE]
          [] how = "rolled_back" ->
                 [row |-> Commit(row, modified, FALSE), raised |-> FALSE]
          [] how = "log_raises" ->
                 [row |-> Commit(row, modified, FALSE), raised |-> TRUE]
          [] OTHER ->
                 [row |-> row, raised |-> TRUE]

-----------------------------------------------------------------------------
(* Behaviours of one assess_lead call *)

QuietScript == [f \in Factors |-> Resp(<< >>, RaisedCompletion)]

AssessIdle ==
    /\ script = QuietScript
    /\ apc = "off"
    /\ result = NoAssessment
    /\ numeric_scores = << >>
    /\ calls = << >>

ExtractIdle ==
    /\ pf = EmptyDict
    /\ xpc = "off"
    /\ extracted = Null

\* a parsed JSON value: t is its type, s the characters of a string, kids
\* the members of an array or object; JNone stands for "no value"
JNone == [t |-> "none", s |-> << >>, kids |-> << >>]

SearchIdle ==
    /\ sresp = [kind |-> "transport", organic |-> [t |-> "missing", items |-> << >>],
                results |-> [t |-> "missing", items |-> << >>]]
    /\ snum = 0
    /\ spc = "off"
    /\ sout = [raised |-> FALSE, results |-> << >>]

JsonIdle ==
    /\ jT = << >>
    /\ jwrap = "none"
    /\ jraise1 = TRUE
    /\ jfix = [raises |-> TRUE, text |-> << >>]
    /\ jpc = "off"
    /\ jout = [raised |-> FALSE, value |-> JNone, completions |-> 0]

\* the query builder, extract_companies_from_url and the racing runs at rest
OtherIdle ==
    /\ qin = [name |-> << >>, industry |-> << >>, source_url |-> "",
              factor |-> << >>]
    /\ qpc = "off"
    /\ qout = << >>
    /\ lin = [url |-> "", kind |-> "exc", items |-> << >>]
    /\ lpc = "off"
    /\ lout = [raised |-> FALSE, t |-> "list", items |-> << >>]
    /\ runs = << >>
    /\ commits = << >>

\* limit = None
NoLimit == -1

\* no request has been made yet
NoRequest == [mode |-> "none", limit |-> NoLimit, queried |-> {}]

StoreIdle ==
    /\ db = [i \in LeadIds |-> NoRow]
    /\ clock = 0
    /\ pc = "off"
    /\ pending = << >>
    /\ cur = NoAssessment
    /\ results = << >>
    /\ last = [valid |-> FALSE, lead |-> 1, before |-> NoRow,
               assessment |-> NoAssessment, ok |-> FALSE, raised |-> FALSE]
    /\ req = NoRequest
    /\ events = << >>

InitAssess ==
    /\ \E base \in BaseResponses :
       \E D \in {X \in SUBSET VariedFactors : Cardinality(X) <= MaxVaried} :
       \E dev \in [D -> VariedResponses] :
           script = ScriptOf(base, D, dev)
    /\ apc = "ready"
    /\ result = NoAssessment
    /\ numeric_scores = << >>
    /\ calls = << >>
    /\ ExtractIdle
    /\ SearchIdle
    /\ JsonIdle
    /\ OtherIdle
    /\ StoreIdle

\* assess_lead(lead), the providers answering as in script
AssessLeadCall ==
    /\ apc = "ready"
    /\ result' = AssessLead(script).assessment
    /\ numeric_scores' = AssessLead(script).numeric_scores
    /\ calls' = AssessLead(script).calls
    /\ apc' = "returned"
    /\ UNCHANGED <<script, extractVars, searchVars, jsonVars, storeVars, otherVars>>

NextAssess == AssessLeadCall

SpecAssess == InitAssess /\ [][NextAssess]_vars

-----------------------------------------------------------------------------
(* Behaviours of the value extraction of lines 232-234 *)

ExtractValues == {Null, Num(0), Num(3), Str(0), Str(1), Bool(0)}

InitExtract ==
    /\ pf \in [fkey : ExtractValues, value : ExtractValues,
               score : ExtractValues, result : ExtractValues,
               rationale : {Null}, lead_score : {Null}]
    /\ xpc = "ready"
    /\ extracted = Null
    /\ AssessIdle
    /\ SearchIdle
    /\ JsonIdle
    /\ OtherIdle
    /\ StoreIdle

ExtractCall ==
    /\ xpc = "ready"
    /\ extracted' = ExtractValue(pf)
    /\ xpc' = "done"
    /\ UNCHANGED <<pf, assessVars, searchVars, jsonVars, storeVars, otherVars>>

NextExtract == ExtractCall

SpecExtract == InitExtract /\ [][NextExtract]_vars

-----------------------------------------------------------------------------
(* SerperClient.search, lines 29-41 *)

MaxResults == 4    \* longest result list the search provider answers with

\* the default of num_results (line 29), also what assess_lead passes
DefaultNumResults == 3

\* the value under a key of the decoded response: missing, a list, or a
\* non-empty dict
Missing      == [t |-> "missing", items |-> << >>]
ListOf(xs)   == [t |-> "list", items |-> xs]
DictField    == [t |-> "dict", items |-> << >>]

\* what the HTTP request does: requests.post raises ("transport"),
\* raise_for_status raises ("http_error", which covers a rejected API key),
\* resp.json() raises ("bad_json"), the decoded body is not a dict
\* ("not_dict"), or it is a dict with the values organic and results ("ok")
HttpAnswer(kind, organic, res) ==
    [kind |-> kind, organic |-> organic, results |-> res]

FieldTruthy(v) == v.t = "dict" \/ (v.t = "list" /\ v.items # << >>)

\* xs[:n] for n >= 0
SlicePrefix(xs, n) == SubSeq(xs, 1, IF n < Len(xs) THEN n ELSE Len(xs))

\* search(q, num_results): whether it raised to the caller and what it
\* returned.  Every exception of lines 33-38, the TypeError/KeyError of
\* slicing a dict included, ends in the handler of line 39.
SerperSearch_NoSlice(resp, num_results) ==
    LET chosen == IF FieldTruthy(resp.organic) THEN resp.organic
                  ELSE IF FieldTruthy(resp.results) THEN resp.results
                  ELSE ListOf(<< >>)
    IN  IF resp.kind # "ok" \/ chosen.t = "dict"
        THEN [raised |-> FALSE, results |-> << >>]
        ELSE [raised |-> FALSE, results |-> chosen.items]

SerperSearch(resp, num_results) ==
    LET chosen == IF FieldTruthy(resp.organic) THEN resp.organic
                  ELSE IF FieldTruthy(resp.results) THEN resp.results
                  ELSE ListOf(<< >>)
    IN  IF resp.kind # "ok" \/ chosen.t = "dict"
        THEN [raised |-> FALSE, results |-> << >>]
        ELSE [raised |-> FALSE,
              results |-> SlicePrefix(chosen.items, num_results)]

SeqsUpTo(S, n) == UNION {[1..k -> S] : k \in 0..n}

HttpAnswers ==
    {HttpAnswer(k, Missing, Missing) :
        k \in {"transport", "http_error", "bad_json", "not_dict"}}
    \cup
    {HttpAnswer("ok", o, r) :
        o \in {Missing, DictField}
              \cup {ListOf(xs) : xs \in SeqsUpTo({Hit(1), Hit(2), Junk}, MaxResults)},
        r \in {Missing, ListOf(<< >>), ListOf(<<Hit(3), Hit(1)>>)}}

InitSearch ==
    /\ sresp \in HttpAnswers
    /\ snum \in 0..DefaultNumResults
    /\ spc = "ready"
    /\ sout = [raised |-> FALSE, results |-> << >>]
    /\ AssessIdle
    /\ ExtractIdle
    /\ JsonIdle
    /\ OtherIdle
    /\ StoreIdle

SearchCallAction ==
    /\ spc = "ready"
    /\ sout' = SerperSearch(sresp, snum)
    /\ spc' = "done"
    /\ UNCHANGED <<sresp, snum, assessVars, extractVars, jsonVars, storeVars, otherVars>>

NextSearch == SearchCallAction

SpecSearch == InitSearch /\ [][NextSearch]_vars

\* the result list of a decoded answer, in the provider's order
ProviderList(resp) ==
    IF resp.organic.t = "list" /\ resp.organic.items # << >>
    THEN resp.organic.items
    ELSE IF resp.organic.t # "dict" /\ resp.results.t = "list"
    THEN resp.results.items
    ELSE << >>

\* C14: search never raises; a transport, HTTP-status, auth or decoding
\* error gives the empty list; otherwise it returns the first results of
\* the provider's list, in order, at most num_results of them.
C14_SearchNeverRaises ==
    (spc = "done") =>
        /\ ~sout.raised
        /\ sresp.kind # "ok" => sout.results = << >>
        /\ Len(sout.results) <= snum
        /\ Len(sout.results) <= Len(ProviderList(sresp))
        /\ \A i \in 1..Len(sout.results) :
               sout.results[i] = ProviderList(sresp)[i]

\* a search whose provider listed more results than asked for returned
\* exactly num_results of them
C14_Witness ==
    /\ spc = "done"
    /\ sresp.kind = "ok"
    /\ snum > 0
    /\ Len(ProviderList(sresp)) > snum
    /\ Len(sout.results) = snum

-----------------------------------------------------------------------------
(* BedrockLLM.generate_json and _fallback_to_json_conversion, llm.py 70-124. *)
(* A text is a sequence of one-character strings.                           *)

IsWs(c) == c \in {" ", "\n"}

RECURSIVE LStrip(_)
LStrip(t) == IF t # << >> /\ IsWs(Head(t)) THEN LStrip(Tail(t)) ELSE t

RECURSIVE RStrip(_)
RStrip(t) ==
    IF t # << >> /\ IsWs(t[Len(t)]) THEN RStrip(SubSeq(t, 1, Len(t) - 1))
    ELSE t

\* str.strip()
Strip(t) == RStrip(LStrip(t))

\* t.startswith(p)
StartsWith(t, p) == Len(t) >= Len(p) /\ SubSeq(t, 1, Len(p)) = p

\* the backquote character, which a string of this language cannot hold
Tick == "tick"

Fence   == <<Tick, Tick, Tick>>
JsonTag == <<"j", "s", "o", "n">>

\* the first index >= i at which a fence starts in t, 0 when there is none
RECURSIVE FindFence(_, _)
FindFence(t, i) ==
    IF i + 2 > Len(t) THEN 0
    ELSE IF SubSeq(t, i, i + 2) = Fence THEN i
    ELSE FindFence(t, i + 1)

\* t.split(Fence)[1] for a text that starts with a fence: what lies between
\* the opening fence and the next one (or the end of the text)
SecondPart(t) ==
    LET j == FindFence(t, 4)
    IN  IF j = 0 THEN SubSeq(t, 4, Len(t)) ELSE SubSeq(t, 4, j - 1)

\* lines 79-86 (and 109-116 for the fixer's answer)
StripFences(t) ==
    LET c == Strip(t)
        inner == SecondPart(c)
    IN  Strip(IF StartsWith(c, Fence)
              THEN IF StartsWith(inner, JsonTag)
                   THEN SubSeq(inner, 5, Len(inner))
                   ELSE inner
              ELSE c)

\* json.loads on the texts of this alphabet: numbers are runs of "1",
\* strings have no escapes, arrays and objects nest
ParseFail == [ok |-> FALSE, val |-> JNone, next |-> 0]

At(t, i, c) == i <= Len(t) /\ t[i] = c

RECURSIVE SkipWs(_, _)
SkipWs(t, i) == IF i <= Len(t) /\ IsWs(t[i]) THEN SkipWs(t, i + 1) ELSE i

RECURSIVE EndOfDigits(_, _)
EndOfDigits(t, i) == IF At(t, i, "1") THEN EndOfDigits(t, i + 1) ELSE i

\* the index of the quote closing the string opened before i, 0 when the
\* string is unterminated or holds a raw newline
RECURSIVE ClosingQuote(_, _)
ClosingQuote(t, i) ==
    IF i > Len(t) \/ t[i] = "\n" THEN 0
    ELSE IF t[i] = "\"" THEN i
    ELSE ClosingQuote(t, i + 1)

ParseString(t, i) ==
    LET j == ClosingQuote(t, i + 1)
    IN  IF j = 0 THEN ParseFail
        ELSE [ok |-> TRUE,
              val |-> [t |-> "str", s |-> SubSeq(t, i + 1, j - 1),
                       kids |-> << >>],
              next |-> j + 1]

\* dict[key] = value: the pair m stored among the pairs acc
PutMember(acc, m) ==
    IF \E j \in 1..Len(acc) : acc[j].s = m.s
    THEN [j \in 1..Len(acc) |-> IF acc[j].s = m.s THEN m ELSE acc[j]]
    ELSE Append(acc, m)

RECURSIVE ParseValue(_, _)
RECURSIVE ParseElems(_, _, _)
RECURSIVE ParseMembers(_, _, _)

ParseValue(t, i) ==
    IF i > Len(t) THEN ParseFail
    ELSE IF t[i] = "1"
    THEN [ok |-> TRUE,
          val |-> [t |-> "num", s |-> SubSeq(t, i, EndOfDigits(t, i) - 1),
                   kids |-> << >>],
          next |-> EndOfDigits(t, i)]
    ELSE IF t[i] = "\"" THEN ParseString(t, i)
    ELSE IF t[i] = "["
    THEN IF At(t, SkipWs(t, i + 1), "]")
         THEN [ok |-> TRUE,
               val |-> [t |-> "arr", s |-> << >>, kids |-> << >>],
               next |-> SkipWs(t, i + 1) + 1]
         ELSE ParseElems(t, SkipWs(t, i + 1), << >>)
    ELSE IF t[i] = "{"
    THEN IF At(t, SkipWs(t, i + 1), "}")
         THEN [ok |-> TRUE,
               val |-> [t |-> "obj", s |-> << >>, kids |-> << >>],
               next |-> SkipWs(t, i + 1) + 1]
         ELSE ParseMembers(t, SkipWs(t, i + 1), << >>)
    ELSE ParseFail

\* the elements of an array from index i on, acc being those already read
ParseElems(t, i, acc) ==
    LET v == ParseValue(t, i)
        k == SkipWs(t, v.next)
    IN  IF ~v.ok THEN ParseFail
        ELSE IF At(t, k, ",")
        THEN ParseElems(t, SkipWs(t, k + 1), Append(acc, v.val))
        ELSE IF At(t, k, "]")
        THEN [ok |-> TRUE,
              val |-> [t |-> "arr", s |-> << >>, kids |-> Append(acc, v.val)],
              next |-> k + 1]
        ELSE ParseFail

\* the members of an object from index i on; the object is a dict, so a
\* key read again keeps its place and takes the later value
ParseMembers(t, i, acc) ==
    LET key == IF At(t, i, "\"") THEN ParseString(t, i) ELSE ParseFail
        c   == SkipWs(t, key.next)
        v   == IF key.ok /\ At(t, c, ":")
               THEN ParseValue(t, SkipWs(t, c + 1))
               ELSE ParseFail
        k   == SkipWs(t, v.next)
        m   == [t |-> "pair", s |-> key.val.s, kids |-> <<v.val>>]
    IN  IF ~v.ok THEN ParseFail
        ELSE IF At(t, k, ",")
        THEN ParseMembers(t, SkipWs(t, k + 1), PutMember(acc, m))
        ELSE IF At(t, k, "}")
        THEN [ok |-> TRUE,
              val |-> [t |-> "obj", s |-> << >>, kids |-> PutMember(acc, m)],
              next |-> k + 1]
        ELSE ParseFail

\* json.loads(t): ok is FALSE when it raises JSONDecodeError
JsonLoads(t) ==
    LET v == ParseValue(t, SkipWs(t, 1))
    IN  IF v.ok /\ SkipWs(t, v.next) = Len(t) + 1
        THEN [ok |-> TRUE, val |-> v.val]
        ELSE [ok |-> FALSE, val |-> JNone]

\* generate_json: first is the first completion's text (first_raises when
\* the call raised instead), fix what the fixer completion does.
\* completions counts the completion calls issued.
GenerateJson_SwallowSecondFailure(first_raises, first, fix) ==
    LET p1 == JsonLoads(StripFences(first))
        p2 == JsonLoads(StripFences(fix.text))
    IN  IF first_raises
        THEN [raised |-> TRUE, value |-> JNone, completions |-> 1]
        ELSE IF p1.ok
        THEN [raised |-> FALSE, value |-> p1.val, completions |-> 1]
        ELSE IF ~fix.raises /\ p2.ok
        THEN [raised |-> FALSE, value |-> p2.val, completions |-> 2]
        ELSE [raised |-> FALSE,
              value |-> [t |-> "arr", s |-> << >>, kids |-> << >>],
              completions |-> 2]

GenerateJson(first_raises, first, fix) ==
    LET p1 == JsonLoads(StripFences(first))
        p2 == JsonLoads(StripFences(fix.text))
    IN  IF first_raises
        THEN [raised |-> TRUE, value |-> JNone, completions |-> 1]
        ELSE IF p1.ok
        THEN [raised |-> FALSE, value |-> p1.val, completions |-> 1]
        ELSE IF fix.raises
        THEN [raised |-> TRUE, value |-> JNone, completions |-> 2]
        ELSE IF p2.ok
        THEN [raised |-> FALSE, value |-> p2.val, completions |-> 2]
        ELSE [raised |-> TRUE, value |-> JNone, completions |-> 2]

(* One generate_json call: the completion answers with a text wrapped in    *)
(* some way (or raises), and the fixer completion has its own answer.       *)

Q == "\""

\* texts json.loads accepts: 1, "x", {"x": 1}, [1, "x"], [], "json", and
\* two whose strings hold a fence
ValidTexts ==
    { <<"1">>,
      <<Q, "x", Q>>,
      <<"{", Q, "x", Q, ":", " ", "1", "}">>,
      <<"[", "1", ",", " ", Q, "x", Q, "]">>,
      <<"[", "]">>,
      <<Q, "j", "s", "o", "n", Q>>,
      <<"{", Q, "x", Q, ":", " ", Q, Tick, Tick, Tick, Q, "}">>,
      <<"[", Q, Tick, Tick, Tick, " ", "1", Q, "]">>,
      <<"{", Q, "x", Q, ":", "1", ",", Q, "s", Q, ":", "1", ",",
        Q, "x", Q, ":", "1", "1", "}">> }

\* texts json.loads rejects: x1, {"x": 1 (truncated), [1,] and the empty text
InvalidTexts ==
    { <<"x", "1">>,
      <<"{", Q, "x", Q, ":", " ", "1">>,
      <<"[", "1", ",", "]">>,
      << >> }

Wraps == {"none", "ws", "fence", "fence_json", "fence_tight"}

\* what the completion returns for the text t
Wrap(t, w) ==
    CASE w = "none"        -> t
      [] w = "ws"          -> <<" ", "\n">> \o t \o <<"\n", " ">>
      [] w = "fence"       -> Fence \o <<"\n">> \o t \o <<"\n">> \o Fence
      [] w = "fence_json"  ->
             Fence \o JsonTag \o <<"\n">> \o t \o <<"\n">> \o Fence
      [] w = "fence_tight" ->
             <<" ">> \o Fence \o JsonTag \o t \o Fence \o <<"\n">>

\* the fixer completion: it raises, or answers valid JSON bare or fenced, or
\* answers a text that is no JSON
FixerAnswers ==
    { [raises |-> TRUE,  text |-> << >>],
      [raises |-> FALSE, text |-> <<"[", "1", "]">>],
      [raises |-> FALSE,
       text |-> Wrap(<<"{", Q, "x", Q, ":", " ", "1", "}">>, "fence_json")],
      [raises |-> FALSE, text |-> <<"x">>] }

InitJson ==
    /\ jT \in ValidTexts \cup InvalidTexts
    /\ jwrap \in Wraps
    /\ jraise1 \in BOOLEAN
    /\ jfix \in FixerAnswers
    /\ jpc = "ready"
    /\ jout = [raised |-> FALSE, value |-> JNone, completions |-> 0]
    /\ AssessIdle /\ ExtractIdle /\ SearchIdle /\ StoreIdle
    /\ OtherIdle

GenerateJsonCall ==
    /\ jpc = "ready"
    /\ jout' = GenerateJson(jraise1, Wrap(jT, jwrap), jfix)
    /\ jpc' = "done"
    /\ UNCHANGED <<jT, jwrap, jraise1, jfix,
                   assessVars, extractVars, searchVars, storeVars, otherVars>>

NextJson == GenerateJsonCall

SpecJson == InitJson /\ [][NextJson]_vars

-----------------------------------------------------------------------------
(* _seo_query_for_factor, lead_assessor.py lines 85-117.  A text (a name,  *)
(* an industry, a keyword, a factor name) is the sequence of its words;    *)
(* the returned string is given as the sequence of its pieces, whose       *)
(* concatenation it is.                                                    *)

\* keywords_map, lines 94-106
KeywordsMap(factor) ==
    CASE
         factor = <<"tech_stack">> ->
        << <<"built", "on">>,
           <<"powered", "by">>,
           <<"Shopify">>,
           <<"WooCommerce">>,
           <<"WordPress">>,
           <<"Magento">>,
           <<"bigcommerce">>,
           <<"platform">> >>
      [] factor = <<"business_age_months">> ->
        << <<"founded">>,
           <<"established">>,
           <<"since">>,
           <<"founded", "in">>,
           <<"incorporated">>,
           <<"year">> >>
      [] factor = <<"merchant_category">> ->
        << <<"subscription">>,
           <<"SaaS">>,
           <<"services">>,
           <<"e-commerce">>,
           <<"online", "store">>,
           <<"marketplace">> >>
      [] factor = <<"company_scale">> ->
        << <<"employees">>,
           <<"team", "of">>,
           <<"headcount">>,
           <<"startup">>,
           <<"enterprise">>,
           <<"SMB">>,
           <<"small", "business">> >>
      [] factor = <<"integration_readiness_score">> ->
        << <<"API">>,
           <<"integrations">>,
           <<"developer", "docs">>,
           <<"plugins">>,
           <<"extensions">>,
           <<"Zapier">>,
           <<"webhooks">> >>
      [] factor = <<"transaction_intent_score">> ->
        << <<"checkout">>,
           <<"buy", "now">>,
           <<"pricing">>,
           <<"add", "to", "cart">>,
           <<"purchase">>,
           <<"orders">>,
           <<"payment">> >>
      [] factor = <<"digital_maturity_score">> ->
        << <<"analytics">>,
           <<"Google", "Analytics">>,
           <<"tracking">>,
           <<"mobile", "friendly">>,
           <<"responsive">>,
           <<"PWA">>,
           <<"SEO">> >>
      [] factor = <<"web_presence_quality">> ->
        << <<"press">>,
           <<"blog">>,
           <<"mentions">>,
           <<"backlinks">>,
           <<"domain", "authority">>,
           <<"traffic">>,
           <<"social">> >>
      [] factor = <<"fraud_risk_pattern_score">> ->
        << <<"chargeback">>,
           <<"fraud">>,
           <<"complaint">>,
           <<"scam">>,
           <<"refund">>,
           <<"lawsuit">>,
           <<"security", "breach">> >>
      [] factor = <<"traffic_check">> ->
        << <<"monthly", "visits">>,
           <<"traffic">>,
           <<"SimilarWeb">>,
           <<"Alexa">>,
           <<"semrush">>,
           <<"traffic", "estimate">> >>
      [] factor = <<"brand_search_volume">> ->
        << <<"search", "volume">>,
           <<"brand", "searches">>,
           <<"Google", "Trends">>,
           <<"searches", "for">> >>
      [] OTHER -> << >>

\* keywords_map.get(factor, [factor, "website", "reviews"])
KeywordsFor(factor) ==
    IF \E i \in 1..Len(FACTOR_KEYS) : factor = <<FACTOR_KEYS[i]>>
    THEN KeywordsMap(factor)
    ELSE <<factor, <<"website">>, <<"reviews">>>>

\* line 108: the slice [:6]
MaxKeywords == 6

\* l[:n]
Take(l, n) == SubSeq(l, 1, IF Len(l) < n THEN Len(l) ELSE n)

\* the pieces of the lists of l, sep between two neighbours (sep.join)
RECURSIVE JoinPieces(_, _)
JoinPieces(l, sep) ==
    IF l = << >> THEN << >>
    ELSE IF Len(l) = 1 THEN l[1]
    ELSE l[1] \o <<sep>> \o JoinPieces(Tail(l), sep)

\* the pieces of a text: its words with one space between
TextPieces(t) == JoinPieces([i \in 1..Len(t) |-> <<t[i]>>], " ")

\* f'"{k}"'
QuotedPieces(t) == <<Q>> \o TextPieces(t) \o <<Q>>

\* line 110: a keyword is quoted when it holds a space
KeywordPieces(k) == IF Len(k) > 1 THEN QuotedPieces(k) ELSE TextPieces(k)

\* urlparse(u): it raises ValueError, or yields a netloc.  The urls are
\*   "https://acme.com/x"  netloc acme.com
\*   "acme.com"            no scheme, so the netloc is empty
\*   "http://[::1"         ValueError: Invalid IPv6 URL
UrlParse(u) ==
    CASE u = "https://acme.com/x" -> [raises |-> FALSE, netloc |-> "acme.com"]
      [] u = "acme.com"           -> [raises |-> FALSE, netloc |-> ""]
      [] u = "http://[::1"        -> [raises |-> TRUE,  netloc |-> ""]

\* lines 87-92; "" stands for None and for the empty string
Domain(u) ==
    IF u = "" THEN ""
    ELSE IF UrlParse(u).raises THEN u
    ELSE UrlParse(u).netloc

\* lines 108-110
OrClause(factor) ==
    LET kws == Take(KeywordsFor(factor), MaxKeywords)
    IN  JoinPieces([i \in 1..Len(kws) |-> KeywordPieces(kws[i])], " OR ")

\* lines 86-117
SeoQueryForFactor(name, industry, source_url, factor) ==
    LET quoted_name == IF name # << >> THEN QuotedPieces(name) ELSE << >>
        parts == SelectSeq(<<quoted_name, OrClause(factor)>>,
                           LAMBDA x : x # << >>)
        q1 == <<"(">> \o JoinPieces(parts, " ") \o <<")">>
        q2 == IF industry # << >>
              THEN q1 \o <<" ">> \o TextPieces(industry)
              ELSE q1
    IN  IF Domain(source_url) # ""
        THEN q2 \o <<" ", "site:", Domain(source_url)>>
        ELSE q2

\* the arguments the builder is explored with: no name, a one-word and a
\* two-word name; no industry or one; the urls above and none; the 11
\* factors and two names that are no factor
QueryNames      == {<< >>, <<"Acme">>, <<"Acme", "Pay">>}
QueryIndustries == {<< >>, <<"fintech">>, <<"online", "retail">>}
QueryUrls       == {"", "https://acme.com/x", "acme.com", "http://[::1"}
QueryFactors    ==
    {<<FACTOR_KEYS[i]>> : i \in 1..Len(FACTOR_KEYS)}
        \cup {<<"pricing_page">>, <<"refund", "policy">>}

InitQuery ==
    /\ qin \in [name : QueryNames, industry : QueryIndustries,
                source_url : QueryUrls, factor : QueryFactors]
    /\ qpc = "ready"
    /\ qout = << >>
    /\ lin = [url |-> "", kind |-> "exc", items |-> << >>]
    /\ lpc = "off"
    /\ lout = [raised |-> FALSE, t |-> "list", items |-> << >>]
    /\ runs = << >>
    /\ commits = << >>
    /\ AssessIdle /\ ExtractIdle /\ SearchIdle /\ JsonIdle /\ StoreIdle

SeoQueryCall ==
    /\ qpc = "ready"
    /\ qout' = SeoQueryForFactor(qin.name, qin.industry, qin.source_url,
                                 qin.factor)
    /\ qpc' = "done"
    /\ UNCHANGED <<qin, leadsVars, raceVars, assessVars, extractVars,
                   searchVars, jsonVars, storeVars>>

NextQuery == SeoQueryCall

SpecQuery == InitQuery /\ [][NextQuery]_vars

-----------------------------------------------------------------------------
(* PayULeadGenerator.extract_companies_from_url, lead_generation.py        *)
(* lines 207-254, the page text having been read                           *)

MaxItems == 2      \* longest list generate_json answers with

\* a key the item does not have
MissingKey   == "<missing>"
MissingScore == -1

\* an item of the list: a dict, of which the keys company_name, source_url
\* and lead_score are followed, or anything else
DictItem(cn, su, ls) ==
    [isdict |-> TRUE, company_name |-> cn, source_url |-> su,
     lead_score |-> ls]
NonDictItem ==
    [isdict |-> FALSE, company_name |-> MissingKey,
     source_url |-> MissingKey, lead_score |-> MissingScore]

\* lines 239-245: item.setdefault(...)
SetDefaults(item, url) ==
    [isdict |-> TRUE,
     company_name |-> IF item.company_name = MissingKey
                      THEN "" ELSE item.company_name,
     source_url |-> IF item.source_url = MissingKey
                    THEN url ELSE item.source_url,
     lead_score |-> IF item.lead_score = MissingScore
                    THEN 0 ELSE item.lead_score]

\* lines 236-246: the dict items of leads, defaults set
RECURSIVE ValidItems(_, _)
ValidItems(items, url) ==
    IF items = << >> THEN << >>
    ELSE IF Head(items).isdict
         THEN <<SetDefaults(Head(items), url)>> \o ValidItems(Tail(items), url)
         ELSE ValidItems(Tail(items), url)

\* lines 231-254.  g is what generate_json does: it raises ("exc" for any
\* exception, "decode" for JSONDecodeError) or returns a list, a dict or a
\* scalar.  When it raises, the handlers of lines 250-253 print, and line
\* 254 reads the local leads, which was never bound: UnboundLocalError.
ExtractCompanies(url, g) ==
    LET valid == IF g.kind = "list" THEN ValidItems(g.items, url) ELSE << >>
    IN  IF g.kind \in {"exc", "decode"}
        THEN [raised |-> TRUE, t |-> "none", items |-> << >>]
        ELSE IF valid # << >>
        THEN [raised |-> FALSE, t |-> "list", items |-> valid]
        ELSE [raised |-> FALSE, t |-> g.kind, items |-> g.items]

LeadItems ==
    {NonDictItem}
        \cup {DictItem(cn, su, ls) :
                 cn \in {MissingKey, "Acme"},
                 su \in {MissingKey, "https://other.com"},
                 ls \in {MissingScore, 40}}

GenerateJsonOutcomes ==
    {[kind |-> k, items |-> << >>] : k \in {"exc", "decode", "dict", "scalar"}}
        \cup {[kind |-> "list", items |-> l] : l \in SeqsUpTo(LeadItems, MaxItems)}

PageUrls == {"https://a.com", "https://b.com"}

InitLeads ==
    /\ \E u \in PageUrls : \E g \in GenerateJsonOutcomes :
           lin = [url |-> u, kind |-> g.kind, items |-> g.items]
    /\ lpc = "ready"
    /\ lout = [raised |-> FALSE, t |-> "list", items |-> << >>]
    /\ qin = [name |-> << >>, industry |-> << >>, source_url |-> "",
              factor |-> << >>]
    /\ qpc = "off"
    /\ qout = << >>
    /\ runs = << >>
    /\ commits = << >>
    /\ AssessIdle /\ ExtractIdle /\ SearchIdle /\ JsonIdle /\ StoreIdle

ExtractCompaniesCall ==
    /\ lpc = "ready"
    /\ lout' = ExtractCompanies(lin.url, lin)
    /\ lpc' = "done"
    /\ UNCHANGED <<lin, queryVars, raceVars, assessVars, extractVars,
                   searchVars, jsonVars, storeVars>>

NextLeads == ExtractCompaniesCall

SpecLeads == InitLeads /\ [][NextLeads]_vars

-----------------------------------------------------------------------------
(* Behaviours of the leads table: lead generation saving leads, and        *)
(* assess_all_leads assessing and persisting them one by one               *)

\* provider answers of the assess_lead calls made by assess_all_leads: every
\* completion fails; every factor scores 0.75; the first search is garbled
StoreScripts ==
    { QuietScript,
      [f \in Factors |-> Resp(<<Hit(1)>>, FactorOnly(Num(3)))],
      [f \in Factors |-> Resp(<<Junk>>, FactorOnly(Num(3)))] }

\* what assess_lead returns under these answers
StoreAssessments == {AssessLead(sc).assessment : sc \in StoreScripts}

\* lead_score values of the lead_data dicts that save_lead_to_db receives
GeneratedScores == {0, 40}

InitStore ==
    /\ db = [i \in LeadIds |-> NoRow]
    /\ clock = 0
    /\ pc = "idle"
    /\ pending = << >>
    /\ cur = NoAssessment
    /\ results = << >>
    /\ last = [valid |-> FALSE, lead |-> 1, before |-> NoRow,
               assessment |-> NoAssessment, ok |-> FALSE, raised |-> FALSE]
    /\ req = NoRequest
    /\ events = << >>
    /\ AssessIdle
    /\ ExtractIdle
    /\ SearchIdle
    /\ JsonIdle
    /\ OtherIdle

\* PayULeadGenerator.save_lead_to_db: a new row with the column defaults of
\* models/lead.py, or nothing when the commit fails
SaveLeadToDb ==
    /\ \E id \in LeadIds : \E s \in GeneratedScores : \E ok \in BOOLEAN :
          /\ ~db[id].exists
          /\ \A j \in LeadIds : j < id => db[j].exists
          /\ IF ok
             THEN /\ db' = [db EXCEPT ![id] =
                              [exists |-> TRUE, status |-> "new",
                               raw_data |-> RawObj(id), lead_score |-> s,
                               created_at |-> clock + 1,
                               company_name |-> id]]
                  /\ clock' = clock + 1
             ELSE UNCHANGED <<db, clock>>
    /\ UNCHANGED <<pc, pending, cur, results, last, req, events,
                   assessVars, extractVars, searchVars, jsonVars, otherVars>>

\* the ids of S in ascending created_at order
RECURSIVE OrderByCreatedAt(_)
OrderByCreatedAt(S) ==
    IF S = {} THEN << >>
    ELSE LET first == CHOOSE i \in S :
                         \A j \in S : <<db[i].created_at, i>> = <<db[j].created_at, j>>
                                      \/ db[i].created_at < db[j].created_at
                                      \/ (db[i].created_at = db[j].created_at /\ i < j)
         IN  <<first>> \o OrderByCreatedAt(S \ {first})

\* line 300: filter(Lead.status != "assessed"), on the table t
Unassessed_RetryErrors(t) ==
    {i \in LeadIds :
        /\ t[i].exists
        /\ \/ t[i].status # "assessed"
           \/ t[i].raw_data.assessment.error}

Unassessed(t) == {i \in LeadIds : t[i].exists /\ t[i].status # "assessed"}

\* q.limit(limit) is applied only when limit is truthy (line 301): neither
\* None nor 0
ApplyLimit(s, limit) ==
    IF limit # NoLimit /\ limit # 0 /\ limit < Len(s)
    THEN SubSeq(s, 1, limit)
    ELSE s

\* the values of the argument limit: None or an integer >= 0
Limits == {NoLimit} \cup (0..NumLeads)

\* what follows the processing of one lead
AfterLead(rest) == IF rest = << >> THEN "return" ELSE "assess"

\* lines 300-304: the query of assess_all_leads (also reached from the
\* endpoint when the request has no lead_ids, api.py line 224)
StartBatch ==
    /\ pc = "idle"
    /\ \E limit \in Limits :
          LET unassessed == Unassessed(db)
          IN  /\ pending' = ApplyLimit(OrderByCreatedAt(unassessed), limit)
              /\ req' = [mode |-> "batch", limit |-> limit,
                         queried |-> unassessed]
    /\ results' = << >>
    /\ events' = << >>
    /\ pc' = IF pending' = << >> THEN "return" ELSE "assess"
    /\ UNCHANGED <<db, clock, cur, last, assessVars, extractVars,
                   searchVars, jsonVars, otherVars>>

\* the lead_ids lists of a request: one id, or two ids that may repeat;
\* an id may have no row
IdLists == {<<i>> : i \in LeadIds} \cup {<<i, j>> : i, j \in LeadIds}

\* the limits of a request that names lead ids: none, and one that is
\* below the length of a two-id list
RequestLimits == {NoLimit, 1}

\* api.py lines 208-210: the request names lead ids; its limit is not read
StartRequestWithIds ==
    /\ pc = "idle"
    /\ \E ids \in IdLists : \E limit \in RequestLimits :
          /\ pending' = ids
          /\ req' = [mode |-> "ids", limit |-> limit, queried |-> {}]
    /\ results' = << >>
    /\ events' = << >>
    /\ pc' = "assess"
    /\ UNCHANGED <<db, clock, cur, last, assessVars, extractVars,
                   searchVars, jsonVars, otherVars>>

\* api.py lines 211-214: no lead has that id, the loop continues
SkipMissingLead ==
    /\ pc = "assess"
    /\ ~db[Head(pending)].exists
    /\ pending' = Tail(pending)
    /\ pc' = AfterLead(Tail(pending))
    /\ UNCHANGED <<db, clock, cur, results, last, req, events, assessVars,
                   extractVars, searchVars, jsonVars, otherVars>>

\* line 306 (api.py line 215): assessment = self.assess_lead(lead)
AssessStep ==
    /\ pc = "assess"
    /\ db[Head(pending)].exists
    /\ cur' \in StoreAssessments
    /\ events' = Append(events, [op |-> "assess", lead |-> Head(pending),
                                 ok |-> TRUE, assessment |-> cur'])
    /\ pc' = "persist"
    /\ UNCHANGED <<db, clock, pending, results, last, req, assessVars,
                   extractVars, searchVars, jsonVars, otherVars>>

\* line 306: assess_lead catches Exception only (line 270), so an interrupt
\* raised while it runs ends the request, whose results are never returned
InterruptAssess ==
    /\ pc = "assess"
    /\ db[Head(pending)].exists
    /\ events' = Append(events, [op |-> "interrupt", lead |-> Head(pending),
                                 ok |-> FALSE, assessment |-> NoAssessment])
    /\ pending' = << >>
    /\ pc' = "interrupted"
    /\ UNCHANGED <<db, clock, cur, results, last, req, assessVars,
                   extractVars, searchVars, jsonVars, otherVars>>

\* lines 307-308 (api.py lines 216-221): persist_assessment(lead,
\* assessment), then results.append, which reads lead.id and
\* lead.company_name: after a commit the session has expired the lead and
\* reloads it, which may fail.  When persist_assessment or the reload
\* raises, the request ends there and returns no results.
PersistStep ==
    /\ pc = "persist"
    /\ \E how \in PersistOutcomes : \E reloaded \in BOOLEAN :
          LET id  == Head(pending)
              out == PersistAssessment(db[id], cur, how)
              ok  == how = "committed"
          IN  /\ ~ok => reloaded
              /\ db' = [db EXCEPT ![id] = out.row]
              /\ last' = [valid |-> TRUE, lead |-> id, before |-> db[id],
                          assessment |-> cur, ok |-> ok,
                          raised |-> out.raised]
              /\ events' = Append(events, [op |-> "persist", lead |-> id,
                                           ok |-> ok, assessment |-> cur])
              /\ IF out.raised \/ ~reloaded
                 THEN /\ results' = results
                      /\ pending' = << >>
                      /\ pc' = "interrupted"
                 ELSE /\ results' = Append(results,
                                   [lead_id |-> id,
                                    company_name |-> out.row.company_name,
                                    assessment |-> cur])
                      /\ pending' = Tail(pending)
                      /\ pc' = AfterLead(Tail(pending))
    /\ UNCHANGED <<clock, cur, req, assessVars, extractVars,
                   searchVars, jsonVars, otherVars>>

\* the record of a request that is over is dropped
NoLast == [valid |-> FALSE, lead |-> 1, before |-> NoRow,
           assessment |-> NoAssessment, ok |-> FALSE, raised |-> FALSE]

\* line 309 (api.py line 227): return results; the locals of the request
\* are gone, only the table remains
ReturnBatch ==
    /\ pc \in {"return", "interrupted"}
    /\ pc' = "idle"
    /\ pending' = << >>
    /\ cur' = NoAssessment
    /\ results' = << >>
    /\ last' = NoLast
    /\ req' = NoRequest
    /\ events' = << >>
    /\ UNCHANGED <<db, clock, assessVars, extractVars, searchVars, jsonVars, otherVars>>

Init == InitStore

Next ==
    \/ SaveLeadToDb
    \/ StartBatch
    \/ StartRequestWithIds
    \/ SkipMissingLead
    \/ AssessStep
    \/ InterruptAssess
    \/ PersistStep
    \/ ReturnBatch

Spec == Init /\ [][Next]_vars

-----------------------------------------------------------------------------
(* Two or more assessment runs, each a LeadAssessor with a session of its  *)
(* own (lines 65-74), working on lead 1 at the same time.  A run loads the *)
(* lead into its session, assesses it, and persists the assessment.        *)

NumRuns == 2       \* assessment runs working on the lead at the same time

RunIds == 1..NumRuns

RacedLead == 1

NoRun == [pc |-> "start", seen |-> NoRow, assessment |-> NoAssessment,
          ok |-> FALSE]

\* the row as save_lead_to_db stored it
SavedRow(s) ==
    [exists |-> TRUE, status |-> "new", raw_data |-> RawObj(RacedLead),
     lead_score |-> s, created_at |-> 1, company_name |-> RacedLead]

\* rows the lead can have before the runs start: as generated, or as an
\* earlier run assessed it
RacedRows ==
    {SavedRow(s) : s \in GeneratedScores}
        \cup {PersistAssessment(SavedRow(s), a, "committed").row :
                 s \in GeneratedScores, a \in StoreAssessments}

\* line 293, session.commit() of a session that loaded the row as `seen` and
\* holds it as `modified`, the table holding `stored` by now: the UPDATE the
\* session's flush emits sets the columns whose value differs from the
\* loaded one, and no others
Flush(stored, seen, modified) ==
    [stored EXCEPT
        !.raw_data = IF modified.raw_data # seen.raw_data
                     THEN modified.raw_data ELSE @,
        !.lead_score = IF modified.lead_score # seen.lead_score
                       THEN modified.lead_score ELSE @,
        !.status = IF modified.status # seen.status
                   THEN modified.status ELSE @]

InitRace ==
    /\ \E row \in RacedRows :
           db = [i \in LeadIds |-> IF i = RacedLead THEN row ELSE NoRow]
    /\ runs = [r \in RunIds |-> NoRun]
    /\ commits = << >>
    /\ clock = 0
    /\ pc = "off"
    /\ pending = << >>
    /\ cur = NoAssessment
    /\ results = << >>
    /\ last = [valid |-> FALSE, lead |-> 1, before |-> NoRow,
               assessment |-> NoAssessment, ok |-> FALSE, raised |-> FALSE]
    /\ req = NoRequest
    /\ events = << >>
    /\ qin = [name |-> << >>, industry |-> << >>, source_url |-> "",
              factor |-> << >>]
    /\ qpc = "off"
    /\ qout = << >>
    /\ lin = [url |-> "", kind |-> "exc", items |-> << >>]
    /\ lpc = "off"
    /\ lout = [raised |-> FALSE, t |-> "list", items |-> << >>]
    /\ AssessIdle /\ ExtractIdle /\ SearchIdle /\ JsonIdle

\* what the racing runs leave alone
raceRest ==
    <<clock, pc, pending, cur, results, last, req, events, queryVars,
      leadsVars, assessVars, extractVars, searchVars, jsonVars>>

\* line 303 (leads = q.all()) or api.py line 212: the run's session reads
\* the row
RaceLoad(r) ==
    /\ runs[r].pc = "start"
    /\ runs' = [runs EXCEPT ![r].pc = "loaded", ![r].seen = db[RacedLead]]
    /\ UNCHANGED <<db, commits, raceRest>>

\* line 306: assessment = self.assess_lead(lead)
RaceAssess(r) ==
    /\ runs[r].pc = "loaded"
    /\ \E a \in StoreAssessments :
           runs' = [runs EXCEPT ![r].pc = "assessed", ![r].assessment = a]
    /\ UNCHANGED <<db, commits, raceRest>>

\* line 307: self.persist_assessment(lead, assessment), the lead being the
\* object the run loaded; the commit succeeds or fails and is rolled back
RacePersist(r) ==
    /\ runs[r].pc = "assessed"
    /\ \E ok \in BOOLEAN :
         LET seen     == runs[r].seen
             modified == ModifiedLead(seen, runs[r].assessment)
         IN  /\ runs' = [runs EXCEPT ![r].pc = "done", ![r].ok = ok]
             /\ IF ok
                THEN /\ db' = [db EXCEPT ![RacedLead] =
                                  Flush(db[RacedLead], seen, modified)]
                     /\ commits' = Append(commits, r)
                ELSE UNCHANGED <<db, commits>>
    /\ UNCHANGED raceRest

NextRace ==
    \/ \E r \in RunIds : RaceLoad(r)
    \/ \E r \in RunIds : RaceAssess(r)
    \/ \E r \in RunIds : RacePersist(r)

SpecRace == InitRace /\ [][NextRace]_vars

-----------------------------------------------------------------------------
(* Properties of assess_lead (SpecAssess) *)

Returned == apc = "returned"

\* the completion of factor f was parsed, i.e. generate_json returned
Parsed(f) == script[f].gen.kind # "exc"

\* the value line 232-234 extracts for factor f, Null when there is none
ExtractedOf(f) ==
    IF Parsed(f) THEN ExtractValue(ParsedFactor(script[f].gen)) ELSE Null

\* the score-type factors whose extracted value float() accepts
Coerced == {f \in ScoreFactors : ExtractedOf(f) # Null /\ FloatOk(ExtractedOf(f))}

\* the value of factor f brought into [0, 1], in quarters
ClampedOf(f) ==
    LET x == FloatOf(ExtractedOf(f))
    IN  IF x < 0 THEN 0 ELSE IF x > 4 THEN 4 ELSE x

RECURSIVE SumClamped(_)
SumClamped(S) ==
    IF S = {} THEN 0
    ELSE LET f == CHOOSE g \in S : TRUE
         IN  ClampedOf(f) + SumClamped(S \ {f})

\* some parsed completion carries a lead_score key
ModelGaveLeadScore ==
    \E f \in Factors : Parsed(f) /\ ParsedFactor(script[f].gen).lead_score # Null

\* C1: when a parsed completion carries lead_score, the lead_score that
\* assess_lead returns is that number, unchanged (150 stays 150).
C1_ModelLeadScoreKept ==
    (Returned /\ ~result.error) =>
        \A f \in Factors :
            (Parsed(f) /\ ParsedFactor(script[f].gen).lead_score # Null) =>
                /\ result.has_lead_score
                /\ 4 * result.lead_score =
                       ParsedFactor(script[f].gen).lead_score.n

\* C2: whatever the providers answer, the mapping assess_lead returns has
\* the rationales key and the raw_search_snippets key.
C2_AlwaysAuditKeys ==
    Returned => (result.has_rationales /\ result.has_raw_search_snippets)

\* C8: a score-type factor whose value float() accepts is stored as a number
\* in [0, 1]: 0 for values below 0, 1 for values above 1, itself otherwise.
C8_ScoresClamped ==
    (Returned /\ ~result.error) =>
        \A f \in Coerced :
            LET x == FloatOf(ExtractedOf(f))
                y == result.vals[f]
            IN  /\ y.t = "num"
                /\ y.n >= 0 /\ y.n <= 4
                /\ (x < 0 => y.n = 0)
                /\ (x > 4 => y.n = 4)
                /\ ((x >= 0 /\ x <= 4) => y.n = x)

\* an assessment was returned in which one score was below 0 and one above 1
C8_Witness ==
    /\ Returned /\ ~result.error
    /\ \E f \in Coerced : FloatOf(ExtractedOf(f)) < 0
    /\ \E f \in Coerced : FloatOf(ExtractedOf(f)) > 4

\* C9: without a model-supplied lead_score, the returned lead_score is
\* round(mean(S) * 100), S the clamped values of the coerced score-type
\* factors (the nearest integer, a tie going to the even one), and 0 when S
\* is empty.
C9_LeadScoreIsRoundedMean ==
    (Returned /\ ~result.error /\ ~ModelGaveLeadScore) =>
        LET n == Cardinality(Coerced)
            t == 25 * SumClamped(Coerced)
            L == result.lead_score
        IN  /\ result.has_lead_score
            /\ n = 0 => L = 0
            /\ n > 0 => /\ 2 * (L * n - t) <= n
                        /\ 2 * (t - L * n) <= n
                        /\ (2 * (t - L * n) = n \/ 2 * (L * n - t) = n)
                               => L % 2 = 0

\* a lead_score was computed from two or more scores whose mean times 100
\* lies exactly between two integers
C9_Witness ==
    /\ Returned /\ ~result.error /\ ~ModelGaveLeadScore
    /\ Cardinality(Coerced) >= 2
    /\ (50 * SumClamped(Coerced)) % Cardinality(Coerced) = 0
    /\ (25 * SumClamped(Coerced)) % Cardinality(Coerced) # 0

\* C10: a score-type factor whose value float() rejects adds nothing to the
\* averaged scores, neither to their sum nor to their number, and its value
\* is returned as extracted.
C10_UncoercedDropped ==
    (Returned /\ ~result.error) =>
        /\ \A f \in ScoreFactors :
               (ExtractedOf(f) # Null /\ ~FloatOk(ExtractedOf(f))) =>
                   result.vals[f] = ExtractedOf(f)
        /\ Len(numeric_scores) = Cardinality(Coerced)
        /\ SumSeq(numeric_scores) = SumClamped(Coerced)

\* an assessment was returned with one score-type factor uncoerced and
\* another one averaged
C10_Witness ==
    /\ Returned /\ ~result.error
    /\ \E f \in ScoreFactors :
           ExtractedOf(f) # Null /\ ~FloatOk(ExtractedOf(f))
    /\ Coerced # {}
    /\ result.lead_score > 0

\* the factors whose completion failed (generate_json raised)
Failed == {f \in Factors : ~Parsed(f)}

\* every search answer is a list of dicts
SearchesWellFormed == \A f \in Factors : ~SearchRaises(script[f].search)

\* the value factor f has after the normalisation of lines 243-262
NormalisedOf(f) ==
    IF f \in Coerced THEN Num(ClampedOf(f)) ELSE ExtractedOf(f)

\* C11: failed completions do not abort the factor loop: assess_lead returns
\* an assessment, all 11 completions were requested, a factor whose
\* completion failed has no value, every other factor has the (normalised)
\* value its completion yielded, and with all 11 failed there is no value
\* and lead_score is 0.
C11_CompletionFailureSkipsFactor ==
    (Returned /\ SearchesWellFormed) =>
        /\ ~result.error
        /\ \A f \in Factors : \E k \in 1..Len(calls) :
               calls[k].op = "complete" /\ calls[k].factor = f
        /\ \A f \in Failed :
               result.vals[f] = Null /\ result.rationales[f] = Null
        /\ \A f \in Factors \ Failed :
               ExtractedOf(f) # Null => result.vals[f] = NormalisedOf(f)
        /\ Failed = Factors =>
               (result.vals = NoValues /\ result.lead_score = 0)

\* a completion failed and a later factor of the loop still got its value
C11_Witness ==
    /\ Returned /\ SearchesWellFormed
    /\ \E i \in 1..Len(FACTOR_KEYS) : \E j \in 1..Len(FACTOR_KEYS) :
           /\ i < j
           /\ FACTOR_KEYS[i] \in Failed
           /\ result.vals[FACTOR_KEYS[j]] # Null

\* the search of factor f failed (its answer holds an item that is no
\* dict) or returned nothing
SearchFailedOrEmpty(f) ==
    script[f].search = << >> \/ SearchRaises(script[f].search)

\* C15: a factor whose search failed or returned nothing is not fatal:
\* assess_lead returns an assessment, the factor has an empty evidence list
\* under raw_search_snippets, its completion is still requested with no
\* snippets, and its value is what that completion yields, if anything.
C15_EmptySearchNonFatal ==
    Returned =>
        \A f \in Factors :
            SearchFailedOrEmpty(f) =>
                /\ ~result.error
                /\ result.raw_search_snippets[f] = << >>
                /\ \E k \in 1..Len(calls) : calls[k] = CompleteCall(f, 0)
                /\ result.vals[f] = NormalisedOf(f)

\* C22: one assess_lead call makes 22 provider calls: for the i-th factor
\* of FACTOR_KEYS, in that order, one search and then one completion whose
\* prompt carries the snippets of that search, the search of the next
\* factor coming after both.
C22_OneSearchThenCompletionPerFactor ==
    Returned =>
        /\ Len(calls) = 2 * Len(FACTOR_KEYS)
        /\ \A i \in 1..Len(FACTOR_KEYS) :
              /\ calls[2 * i - 1] = SearchCall(FACTOR_KEYS[i])
              /\ calls[2 * i] =
                     CompleteCall(FACTOR_KEYS[i],
                                  Len(script[FACTOR_KEYS[i]].search))

\* the rationale key of the parsed completion of factor f, Null when the
\* completion failed or has no such key
RationaleOf(f) ==
    IF Parsed(f) THEN ParsedFactor(script[f].gen).rationale ELSE Null

\* C23: assess_lead, when it returns an assessment, has recorded under
\* each factor's name the rationale key of that factor's parsed completion
\* whenever the completion has one, and no rationale under any other key.
C23_RationaleRecordedPerFactor ==
    (Returned /\ ~result.error) =>
        \A f \in Factors : result.rationales[f] = RationaleOf(f)

\* C26: an assess_lead call that does not end in the error-only result
\* returns a lead_score that is an integer from 0 to 100.
C26_LeadScoreInRange ==
    (Returned /\ ~result.error) =>
        /\ result.has_lead_score
        /\ result.lead_score \in 0..100

\* completions answered above 1 and below 0, and the score is strictly
\* between the ends of the range
C26_Witness ==
    /\ Returned /\ ~result.error
    /\ \E f \in ScoreFactors : f \in Coerced /\ FloatOf(ExtractedOf(f)) > 4
    /\ \E f \in ScoreFactors : f \in Coerced /\ FloatOf(ExtractedOf(f)) < 0
    /\ result.lead_score > 0 /\ result.lead_score < 100

\* C30: assess_lead never makes the estimate call: its provider calls are
\* searches and the factor prompt's generate_json only, at most one
\* generate_json per factor (so at most two completions per factor, the
\* original and one repair), also when a search returned nothing or a
\* completion failed.
C30_EstimateNeverCalled ==
    Returned =>
        /\ \A k \in 1..Len(calls) : calls[k].op \in {"search", "complete"}
        /\ \A f \in Factors :
              Cardinality({k \in 1..Len(calls) :
                  calls[k].op # "search" /\ calls[k].factor = f}) <= 1

\* an assessment was returned although one factor had no search result but
\* a parsed completion, and the completion of another failed
C30_Witness ==
    /\ Returned /\ ~result.error
    /\ \E f \in Factors : script[f].search = << >> /\ Parsed(f)
    /\ \E f \in Factors : ~Parsed(f)
    /\ Len(calls) = 2 * Len(FACTOR_KEYS)

-----------------------------------------------------------------------------
(* Properties of the value extraction (SpecExtract) *)

\* the first non-null value among the keys factor, value, score, result
FirstNonNull(p) ==
    IF p.fkey # Null THEN p.fkey
    ELSE IF p.value # Null THEN p.value
    ELSE IF p.score # Null THEN p.score
    ELSE p.result

\* C3: the value extracted for a factor is that of the first of the keys
\* factor name, value, score, result whose value is non-null, falsy values
\* such as 0 or the empty string included.
C3_FirstNonNullWins == (xpc = "done") => extracted = FirstNonNull(pf)

-----------------------------------------------------------------------------
(* Properties of the leads table (Spec) *)

\* a payload with lead_score, rationales and raw_search_snippets
WellFormed(a) ==
    a.has_lead_score /\ a.has_rationales /\ a.has_raw_search_snippets

\* C4: a lead with status assessed has a well-formed assessment payload, and
\* a lead with status new has no assessment payload.
C4_StatusMatchesPayload ==
    \A id \in LeadIds :
        db[id].exists =>
            /\ db[id].status = "assessed" =>
                   (db[id].raw_data.has_assessment
                    /\ WellFormed(db[id].raw_data.assessment))
            /\ db[id].status = "new" => ~db[id].raw_data.has_assessment

\* C5: after persist_assessment the lead's row either is as before the call,
\* or has the new status, the new payload and the assessment's lead score.
C5_PersistAtomic ==
    last.valid =>
        LET row == db[last.lead]
            b   == last.before
            a   == last.assessment
        IN  \/ /\ row.status = b.status
               /\ row.raw_data = b.raw_data
               /\ row.lead_score = b.lead_score
            \/ /\ row.status = "assessed"
               /\ row.raw_data.has_assessment
               /\ row.raw_data.assessment = a
               /\ a.has_lead_score => row.lead_score = a.lead_score

\* a write succeeded that changed status, payload and score of a new lead
C5_Witness ==
    /\ last.valid /\ last.ok
    /\ last.before.status = "new"
    /\ last.assessment.has_lead_score
    /\ db[last.lead].lead_score # last.before.lead_score
    /\ db[last.lead].status = "assessed"

\* C6: the error-only result of assess_lead has no key but error, and
\* persisting it leaves the lead's stored lead_score as it was.
C6_ErrorOnlyKeepsScore ==
    /\ (pc = "persist" /\ cur.error) =>
           (~cur.has_lead_score /\ ~cur.has_rationales
            /\ ~cur.has_raw_search_snippets /\ cur.vals = NoValues)
    /\ (last.valid /\ last.assessment.error) =>
           db[last.lead].lead_score = last.before.lead_score

\* an error-only result was written for a lead whose score was 40
C6_Witness ==
    /\ last.valid /\ last.ok /\ last.assessment.error
    /\ last.before.lead_score = 40
    /\ db[last.lead].status = "assessed"

\* C7: when the write fails, persist_assessment does not raise and the
\* lead's stored status, raw_data and lead_score are those before the call.
C7_FailedWriteRollsBack ==
    (last.valid /\ ~last.ok) =>
        /\ ~last.raised
        /\ db[last.lead].status = last.before.status
        /\ db[last.lead].raw_data = last.before.raw_data
        /\ db[last.lead].lead_score = last.before.lead_score


\* the lead ids of the returned entries, in order
ResultIds == [i \in 1..Len(results) |-> results[i].lead_id]

\* the request ran assess_all_leads and is at its return statement
BatchReturned == pc = "return" /\ req.mode = "batch"

\* the number of leads the limit allows among n
Allowed(n, limit) == IF limit = NoLimit \/ limit > n THEN n ELSE limit

\* C16: assess_all_leads returns one entry {lead_id, company_name,
\* assessment} per lead that was not assessed when the query ran, up to the
\* limit, the earliest created first and in ascending creation-time order.
C16_ProcessesUnassessedInOrder ==
    BatchReturned =>
        /\ Len(results) = Allowed(Cardinality(req.queried), req.limit)
        /\ \A i \in 1..Len(results) :
              /\ ResultIds[i] \in req.queried
              /\ results[i].company_name = db[ResultIds[i]].company_name
        /\ \A i, j \in 1..Len(results) :
              i < j => db[ResultIds[i]].created_at
                           < db[ResultIds[j]].created_at
        /\ \A q \in req.queried : \A i \in 1..Len(results) :
              (\A j \in 1..Len(results) : ResultIds[j] # q) =>
                  db[ResultIds[i]].created_at < db[q].created_at

\* the assessment that the persist of events[k] wrote is stored
Kept(k) ==
    LET id == events[k].lead
    IN  /\ db[id].status = "assessed"
        /\ db[id].raw_data.has_assessment
        /\ db[id].raw_data.assessment = events[k].assessment

\* C17: in assess_all_leads every assess_lead call but the first directly
\* follows the persist of the previous lead, every persist directly follows
\* the assess_lead call of its own lead, and whatever was committed for a
\* lead stays stored while later leads are assessed, also when the
\* assessment of a later lead is interrupted.
C17_PersistBeforeNextAssess ==
    (req.mode = "batch") =>
        \A k \in 1..Len(events) :
            /\ (events[k].op \in {"assess", "interrupt"} /\ k > 1) =>
                   /\ events[k - 1].op = "persist"
                   /\ events[k - 1].lead # events[k].lead
            /\ events[k].op = "persist" =>
                   /\ k > 1
                   /\ events[k - 1].op = "assess"
                   /\ events[k - 1].lead = events[k].lead
                   /\ events[k].ok => Kept(k)

\* the first lead of a batch was committed, and the assessment of the
\* second was interrupted
C17_Witness ==
    /\ req.mode = "batch" /\ pc = "interrupted"
    /\ Len(events) = 3
    /\ events[2].op = "persist" /\ events[2].ok
    /\ events[3].op = "interrupt"
    /\ Kept(2)

\* C18: a request with a limit >= 0 returns at most that many assessments,
\* whether it names lead ids or not.
C18_LimitBoundsAssessed ==
    (pc = "return" /\ req.limit # NoLimit) => Len(results) <= req.limit

\* the last persist of the request stored its assessment over a payload
\* that had one already
Reassessed ==
    /\ last.valid /\ last.ok
    /\ last.before.raw_data.has_assessment

\* C19: when an assessment is stored for a lead that has one already, the
\* stored assessment is the new one, with nothing of the old, and the other
\* keys of raw_data are as before.
C19_ReassessOverwrites ==
    Reassessed =>
        LET raw == db[last.lead].raw_data
        IN  /\ raw.kind = "obj"
            /\ raw.has_assessment
            /\ raw.assessment = last.assessment
            /\ raw.data = last.before.raw_data.data

\* a scored assessment replaced an error-only one, or the reverse
C19_Witness ==
    /\ Reassessed
    /\ last.before.raw_data.assessment # last.assessment
    /\ last.before.raw_data.assessment.error # last.assessment.error

\* the persist calls of the request, in order
Persists == SelectSeq(events, LAMBDA e : e.op = "persist")

\* the last two persist calls of the request had the same lead and the same
\* assessment
PersistedTwice ==
    LET n == Len(Persists)
    IN  /\ n >= 2
        /\ last.valid
        /\ Persists[n].lead = Persists[n - 1].lead
        /\ Persists[n].assessment = Persists[n - 1].assessment

\* the row is as the first of the two calls left it
AsAfterFirst ==
    /\ db[last.lead].raw_data = last.before.raw_data
    /\ db[last.lead].lead_score = last.before.lead_score
    /\ db[last.lead].status = last.before.status

\* C20, as stated: after two persist_assessment calls in a row with the
\* same lead and assessment, raw_data, lead_score and status are as after
\* the first call.
C20_PersistTwiceSameAsOnce == PersistedTwice => AsAfterFirst

\* C20, amended: the same, when the commit of the first call succeeded.
C20_PersistTwiceAfterStored ==
    (PersistedTwice /\ Persists[Len(Persists) - 1].ok) => AsAfterFirst

\* a scored assessment was committed twice in a row for a lead whose score
\* was another before
C20_Witness ==
    /\ PersistedTwice
    /\ Persists[Len(Persists) - 1].ok /\ last.ok
    /\ last.assessment.has_lead_score
    /\ db[last.lead].lead_score = last.assessment.lead_score
    /\ db[last.lead].status = "assessed"


\* lead i is stored with status assessed and the error-only payload
ErrorStored(i) ==
    /\ db[i].exists
    /\ db[i].status = "assessed"
    /\ db[i].raw_data.has_assessment
    /\ db[i].raw_data.assessment = ErrorOnly

\* this step starts an assess_all_leads run
BatchStarts == pc = "idle" /\ req'.mode = "batch"

\* C27: a committed persist of the error-only result leaves the lead with
\* status assessed and that error object as its payload; and a lead stored
\* so is selected by no assess_all_leads run that starts later, and keeps
\* status assessed.
C27_ErrorLeadNeverRetried ==
    /\ [](last.valid /\ last.ok /\ last.assessment.error
              => ErrorStored(last.lead))
    /\ [][\A i \in LeadIds :
             ErrorStored(i) =>
                 /\ db'[i].status = "assessed"
                 /\ BatchStarts =>
                        /\ i \notin req'.queried
                        /\ \A k \in 1..Len(pending') : pending'[k] # i]_vars

\* a run of assess_all_leads has just started: it selected a lead, and
\* passed over one that an earlier request stored with the error-only
\* payload
C27_Witness ==
    /\ req.mode = "batch" /\ pc = "assess" /\ events = << >>
    /\ pending # << >>
    /\ \E i \in LeadIds :
           /\ ErrorStored(i)
           /\ i \notin req.queried
           /\ \A k \in 1..Len(pending) : pending[k] # i

\* C28: a lead is created with status new, no step changes a stored status
\* except to assessed, and a lead with status assessed keeps it.
C28_StatusMonotone ==
    [][\A i \in LeadIds :
          /\ (~db[i].exists /\ db'[i].exists) => db'[i].status = "new"
          /\ db[i].exists =>
                 /\ db'[i].exists
                 /\ db'[i].status \in {db[i].status, "assessed"}]_vars

\* a lead that was assessed already was persisted again, the commit
\* succeeding, and is still assessed
C28_Witness ==
    /\ last.valid /\ last.ok
    /\ last.before.status = "assessed"
    /\ db[last.lead].status = "assessed"

\* C29: the request has appended one entry per persist_assessment call,
\* the lead's and in call order, whether or not the commit succeeded; and
\* after a failed commit the entry of that lead carries its assessment,
\* the call did not raise, and the stored lead is as before the call.
C29_FailedPersistStillReported ==
    /\ pc \in {"assess", "persist", "return"} =>
           /\ Len(results) = Len(Persists)
           /\ \A k \in 1..Len(results) :
                  results[k].lead_id = Persists[k].lead
    /\ (last.valid /\ ~last.ok) =>
           /\ ~last.raised
           /\ results # << >>
           /\ results[Len(results)].lead_id = last.lead
           /\ results[Len(results)].assessment = last.assessment
           /\ db[last.lead] = last.before

-----------------------------------------------------------------------------
(* Properties of the query builder (SpecQuery) *)

\* a source url was supplied and its host parses to a non-empty value
HostParses(u) == u # "" /\ ~UrlParse(u).raises /\ UrlParse(u).netloc # ""

\* the keywords of the clause: at most 6 of the factor's list, or the
\* factor name, website and reviews for a name that is no factor
ClaimedKeywords(factor) ==
    IF \E i \in 1..Len(FACTOR_KEYS) : factor = <<FACTOR_KEYS[i]>>
    THEN Take(KeywordsMap(factor), 6)
    ELSE <<factor, <<"website">>, <<"reviews">>>>

\* C24: the builder returns "(", the quoted company name if it is not
\* empty, the keywords joined by OR (multi-word keywords quoted), ")", then
\* the industry iff it is not empty, then site:<host> iff a source url was
\* supplied and its host parses to a non-empty value.
C24_QueryShape ==
    (qpc = "done") =>
        LET kws    == ClaimedKeywords(qin.factor)
            clause == JoinPieces([i \in 1..Len(kws) |-> KeywordPieces(kws[i])],
                                 " OR ")
            inner  == IF qin.name # << >>
                      THEN QuotedPieces(qin.name) \o <<" ">> \o clause
                      ELSE clause
            ind    == IF qin.industry # << >>
                      THEN <<" ">> \o TextPieces(qin.industry)
                      ELSE << >>
            site   == IF HostParses(qin.source_url)
                      THEN <<" ", "site:", UrlParse(qin.source_url).netloc>>
                      ELSE << >>
        IN  qout = <<"(">> \o inner \o <<")">> \o ind \o site

-----------------------------------------------------------------------------
(* Properties of extract_companies_from_url (SpecLeads) *)

\* C25: whatever generate_json does (raise, or return a non-list, or a list
\* without dict items, or a list with some), extract_companies_from_url
\* does not raise and returns a list, possibly empty, of lead dicts.
C25_ExtractionNeverRaises ==
    (lpc = "done") =>
        /\ ~lout.raised
        /\ lout.t = "list"
        /\ \A i \in 1..Len(lout.items) : lout.items[i].isdict

-----------------------------------------------------------------------------
(* Properties of generate_json (SpecJson).                                  *)

JsonReturned == jpc = "done"
FirstText    == Wrap(jT, jwrap)
FirstParse   == JsonLoads(StripFences(FirstText))
FixerParse   == JsonLoads(StripFences(jfix.text))
RepairTried  == ~jraise1 /\ ~FirstParse.ok

\* C12: a generate_json call issues at most two completions: the second,
\* the repair, exactly when the first answer came back and did not parse,
\* and never a third; when the repair completion raises or its answer does
\* not parse, the call raises rather than trying again.
C12_AtMostOneRepair ==
    JsonReturned =>
        /\ jout.completions \in {1, 2}
        /\ (jout.completions = 2) <=> RepairTried
        /\ (RepairTried /\ (jfix.raises \/ ~FixerParse.ok)) =>
               (jout.raised /\ jout.value = JNone)
        /\ (RepairTried /\ ~jfix.raises /\ FixerParse.ok) =>
               (~jout.raised /\ jout.value = FixerParse.val)

C12_Witness ==
    /\ JsonReturned /\ RepairTried
    /\ ~jfix.raises /\ ~FixerParse.ok
    /\ jout.raised /\ jout.completions = 2

\* C13: a completion whose answer is valid JSON, bare, surrounded by
\* whitespace or wrapped in a fence with or without the json tag, is parsed
\* to that JSON value by the first parse, with no repair completion.
C13_ValidJsonNeedsNoRepair ==
    (JsonReturned /\ ~jraise1 /\ jT \in ValidTexts) =>
        /\ ~jout.raised
        /\ jout.completions = 1
        /\ jout.value = JsonLoads(jT).val
        /\ JsonLoads(StripFences(jT)) = JsonLoads(jT)

-----------------------------------------------------------------------------
(* Properties of racing assessment runs (SpecRace) *)

AllRunsCommitted ==
    /\ Len(commits) = NumRuns
    /\ \A r \in RunIds : runs[r].pc = "done"

LastWriter == commits[Len(commits)]

\* C21: after all the racing runs have committed, the lead's stored
\* assessment payload, lead_score and status are those the run that
\* committed last wrote: its assessment under raw_data, its lead_score (when
\* its assessment has one) in the column, and status "assessed".
C21_LastWriterWins ==
    AllRunsCommitted =>
        LET a   == runs[LastWriter].assessment
            row == db[RacedLead]
        IN  /\ row.raw_data.has_assessment
            /\ row.raw_data.assessment = a
            /\ row.status = "assessed"
            /\ a.has_lead_score => row.lead_score = a.lead_score

=============================================================================
